---------------------------- MODULE Spec2Model ----------------------------
(***************************************************************************)
(* A model of prow/genjobs/cmd/genjobs/main.go: the job transformation     *)
(* engine that rewrites CI job definitions of public repositories so that  *)
(* they run against mirrored private repositories.                         *)
(*                                                                         *)
(* Strings are sequences of one-character strings, so that length,         *)
(* prefix, slicing and concatenation are what the Go code computes.        *)
(* A nullable pointer or map is a sequence of length 0 (nil) or 1.         *)
(* A Go map is a function; a missing key reads as the zero value.          *)
(***************************************************************************)
EXTENDS Integers, Sequences, FiniteSets, TLC

VARIABLES
    o,      \* the options (command-line flags) of the run
    files,  \* the input files in the order filepath.Walk visits them
    fs,     \* the output file system: path -> file content
    fs0,    \* the output file system when the run started
    idx,    \* the index of the next input file to visit
    pc,     \* the position of Main, or of the function under call
    arg,    \* the arguments of the function under call
    ret     \* the result of the function under call

vars == <<o, files, fs, fs0, idx, pc, arg, ret>>

-----------------------------------------------------------------------------
(* Program constants (main.go, const block).                               *)

maxLabelLen == 63

jobnameSeparator == <<"_">>

filenameSeparator == <<".">>

gitHost == <<"g", "i", "t", "h", "u", "b", ".", "c", "o", "m">>

defaultModifier == <<"p", "r", "i", "v", "a", "t", "e">>

defaultCluster == "default"

autogenHeader == "# THIS FILE IS AUTOGENERATED. DO NOT EDIT. See genjobs/README.md\n"

-----------------------------------------------------------------------------
(* Strings.                                                                *)

EmptyStr == << >>

HasPrefix(s, p) == Len(p) <= Len(s) /\ SubSeq(s, 1, Len(p)) = p

HasSuffix(s, p) == Len(p) <= Len(s) /\ SubSeq(s, Len(s) - Len(p) + 1, Len(s)) = p

Contains(s, p) == \E i \in 0..(Len(s) - Len(p)) : SubSeq(s, i + 1, i + Len(p)) = p

TrimPrefix(s, p) == IF HasPrefix(s, p) THEN SubSeq(s, Len(p) + 1, Len(s)) ELSE s

\* Go's s[:n]: a run-time panic when n is outside 0..len(s).
SliceTo(s, n) == IF n < 0 \/ n > Len(s) THEN [panic |-> TRUE, str |-> EmptyStr]
                 ELSE [panic |-> FALSE, str |-> SubSeq(s, 1, n)]

\* The zero value of a missing key of a map[string]string.
MapGet(m, k) == IF k \in DOMAIN m THEN m[k] ELSE EmptyStr

EmptyMap == [k \in {} |-> ""]

\* m with every entry of n written over it (for k, v := range n { m[k] = v }).
Overlay(m, n) == [k \in (DOMAIN m) \cup (DOMAIN n) |-> IF k \in DOMAIN n THEN n[k] ELSE m[k]]

RECURSIVE JoinStrings(_, _)
JoinStrings(parts, sep) ==
    IF Len(parts) = 0 THEN EmptyStr
    ELSE IF Len(parts) = 1 THEN parts[1]
    ELSE parts[1] \o sep \o JoinStrings(Tail(parts), sep)

\* strings.FieldsFunc(s, c == '/'): the maximal runs of characters other than '/'.
RECURSIVE FieldsSlash(_, _, _)
FieldsSlash(s, cur, acc) ==
    IF Len(s) = 0 THEN (IF Len(cur) = 0 THEN acc ELSE Append(acc, cur))
    ELSE IF s[1] = "/" THEN FieldsSlash(Tail(s), EmptyStr, IF Len(cur) = 0 THEN acc ELSE Append(acc, cur))
    ELSE FieldsSlash(Tail(s), Append(cur, s[1]), acc)

\* regexp.MustCompile(pattern).MatchString(s) for the patterns of the model:
\* literal text, optionally anchored by a leading ^ and a trailing $.
\* An unanchored pattern matches anywhere in s.
MatchString(pattern, s) ==
    LET a    == Len(pattern) > 0 /\ pattern[1] = "^"
        r1   == IF a THEN Tail(pattern) ELSE pattern
        z    == Len(r1) > 0 /\ r1[Len(r1)] = "$"
        lit  == IF z THEN SubSeq(r1, 1, Len(r1) - 1) ELSE r1
    IN  IF a /\ z THEN s = lit
        ELSE IF a THEN HasPrefix(s, lit)
        ELSE IF z THEN HasSuffix(s, lit)
        ELSE Contains(s, lit)

-----------------------------------------------------------------------------
(* Names used by the inputs of the model.                                  *)

OrgA == <<"o", "r", "g", "-", "a">>

OrgB == <<"o", "r", "g", "-", "b">>

OrgC == <<"o", "r", "g", "-", "c">>

OrgD == <<"o", "r", "g", "-", "d">>

RepoX == <<"r", "e", "p", "o", "-", "x">>

RepoY == <<"r", "e", "p", "o", "-", "y">>

BranchMain == <<"m", "a", "i", "n">>

BranchDev == <<"d", "e", "v">>

BranchRel == <<"r", "e", "l", "-", "1">>

PatMain == <<"^", "m", "a", "i", "n", "$">>

PatRel == <<"r", "e", "l">>

PatDev == <<"^", "d", "e">>

JobA == <<"j", "o", "b", "-", "a">>

JobB == <<"j", "o", "b", "-", "b">>

JobTypes == {"presubmit", "postsubmit", "periodic"}

SeqsUpTo(S, n) == UNION {[1..k -> S] : k \in 0..n}

\* The one-to-one org mappings the runs are configured with.
OrgMaps ==
    { [k \in {OrgA} |-> OrgB],
      [k \in {OrgA, OrgC} |-> IF k = OrgA THEN OrgB ELSE OrgD] }

-----------------------------------------------------------------------------
(* options: the flags, with the defaults parseFlags gives them.  The       *)
(* mapping is required by validateFlags, so it is never empty.  presets    *)
(* holds the preset files the paths of --presets name.                     *)

DefaultOptions ==
    [ bucket           |-> "",
      cluster          |-> "",
      channel          |-> "",
      sshKeySecret     |-> "",
      modifier         |-> defaultModifier,
      input            |-> <<"/", "i", "n">>,
      output           |-> <<"/", "o", "u", "t">>,
      branches         |-> << >>,
      presets          |-> << >>,
      selector         |-> EmptyMap,
      labels           |-> EmptyMap,
      env              |-> EmptyMap,
      orgMap           |-> [k \in {OrgA} |-> OrgB],
      jobWhitelist     |-> {},
      jobBlacklist     |-> {},
      repoWhitelist    |-> {},
      repoBlacklist    |-> {},
      jobType          |-> JobTypes,
      clean            |-> FALSE,
      dryRun           |-> FALSE,
      extraRefs        |-> FALSE,
      resolve          |-> FALSE,
      sshClone         |-> FALSE,
      overrideSelector |-> FALSE ]

-----------------------------------------------------------------------------
(* Filter.                                                                 *)

\* validateOrgRepo without the test that the org has a mapping.
validateOrgRepo_NoOrgTest(opts, org, repo) ==
    IF repo \in opts.repoBlacklist
       \/ (Cardinality(opts.repoWhitelist) > 0 /\ repo \notin opts.repoWhitelist)
    THEN FALSE
    ELSE TRUE

validateOrgRepo(opts, org, repo) ==
    LET hasOrg == org \in DOMAIN opts.orgMap
    IN  IF ~hasOrg \/ repo \in opts.repoBlacklist
           \/ (Cardinality(opts.repoWhitelist) > 0 /\ repo \notin opts.repoWhitelist)
        THEN FALSE
        ELSE TRUE

isMatchBranch(opts, patterns) ==
    IF Len(opts.branches) = 0 THEN TRUE
    ELSE \E i \in 1..Len(opts.branches) : \E j \in 1..Len(patterns) :
            MatchString(patterns[j], opts.branches[i])

\* validateJob where a name in the allow set is not looked up in the deny set.
validateJob_AllowFirst(opts, name, patterns, jType) ==
    IF (name \in opts.jobBlacklist /\ name \notin opts.jobWhitelist)
       \/ (Cardinality(opts.jobWhitelist) > 0 /\ name \notin opts.jobWhitelist)
       \/ ~isMatchBranch(opts, patterns)
       \/ jType \notin opts.jobType
    THEN FALSE
    ELSE TRUE

validateJob(opts, name, patterns, jType) ==
    IF name \in opts.jobBlacklist
       \/ (Cardinality(opts.jobWhitelist) > 0 /\ name \notin opts.jobWhitelist)
       \/ ~isMatchBranch(opts, patterns)
       \/ jType \notin opts.jobType
    THEN FALSE
    ELSE TRUE

-----------------------------------------------------------------------------
(* OrgRemapper.                                                            *)

\* The position of the last "/" of s, 0 when there is none.
LastSlash(s) == IF \E i \in 1..Len(s) : s[i] = "/"
                THEN CHOOSE i \in 1..Len(s) : s[i] = "/" /\ \A j \in (i + 1)..Len(s) : s[j] # "/"
                ELSE 0

\* util.SplitOrgRepo: "org/repo" into its org and its repo.
SplitOrgRepo(s) ==
    LET i == LastSlash(s)
    IN  IF i = 0 THEN [org |-> s, repo |-> EmptyStr]
        ELSE [org |-> SubSeq(s, 1, i - 1), repo |-> SubSeq(s, i + 1, Len(s))]

\* convertOrgRepoStr without the remapping: the identity is returned as read.
convertOrgRepoStr_KeepOrg(opts, s) == s

OrgRepoStr(org, repo) == JoinStrings(<<org, repo>>, <<"/">>)

convertOrgRepoStr(opts, s) ==
    LET sp    == SplitOrgRepo(s)
        valid == validateOrgRepo(opts, sp.org, sp.repo)
    IN  IF ~valid THEN EmptyStr
        ELSE JoinStrings(<<MapGet(opts.orgMap, sp.org), sp.repo>>, <<"/">>)

-----------------------------------------------------------------------------
(* PathRouter.                                                             *)

YamlSuffixes == { <<"y", "m", "l">>, <<"y", "a", "m", "l">> }

\* util.HasExtension(path, yamlExt) with yamlExt = ".(yml|yaml)$": any one
\* character followed by yml or yaml at the end of the path.
HasExtension(path) == \E x \in YamlSuffixes : Len(path) > Len(x) /\ HasSuffix(path, x)

\* util.GetTopLevelOrg: the first path component of an org identifier.
GetTopLevelOrg(org) ==
    LET f == FieldsSlash(org, EmptyStr, << >>) IN IF Len(f) = 0 THEN EmptyStr ELSE f[1]

\* util.RemoveHost: the org identifier without a leading "<host>/".
RemoveHost(org) == TrimPrefix(org, gitHost \o <<"/">>)

WordChars ==
    { "a", "b", "c", "d", "e", "f", "g", "h", "i", "j", "k", "l", "m", "n", "o", "p", "q",
      "r", "s", "t", "u", "v", "w", "x", "y", "z", "0", "1", "2", "3", "4", "5", "6", "7",
      "8", "9", "_" }

\* The regular expression \b after position n of s (n >= 1).
WordBoundaryAfter(s, n) ==
    (s[n] \in WordChars) # (n < Len(s) /\ s[n + 1] \in WordChars)

\* util.RenameFile(`^` + org + `\b`, file, newOrg): the leading org of the
\* file name replaced by newOrg.
RenameFile(org, file, newOrg) ==
    IF Len(org) > 0 /\ HasPrefix(file, org) /\ WordBoundaryAfter(file, Len(org))
    THEN newOrg \o SubSeq(file, Len(org) + 1, Len(file))
    ELSE file

IsNonEmpty(s) == Len(s) > 0

\* filepath.Join: the non-empty elements joined by "/".
JoinPath(elems) == JoinStrings(SelectSeq(elems, IsNonEmpty), <<"/">>)

\* filepath.Base.
Base(path) ==
    LET f == FieldsSlash(path, EmptyStr, << >>) IN IF Len(f) = 0 THEN <<"/">> ELSE f[Len(f)]

getOutPath(opts, p, in) ==
    LET segments == FieldsSlash(TrimPrefix(p, in), EmptyStr, << >>)
        n        == Len(segments)
    IN  IF HasExtension(opts.output) THEN opts.output
        ELSE IF n >= 3 THEN
            LET org == segments[n - 2]
                repo == segments[n - 1]
                file == segments[n]
            IN  IF org \in DOMAIN opts.orgMap
                THEN JoinPath(<<opts.output, GetTopLevelOrg(opts.orgMap[org]), repo,
                                RenameFile(RemoveHost(org), file, RemoveHost(opts.orgMap[org]))>>)
                ELSE EmptyStr
        ELSE IF n = 2 THEN
            LET org == segments[n - 1]
                file == segments[n]
            IN  IF org \in DOMAIN opts.orgMap
                THEN JoinPath(<<opts.output, GetTopLevelOrg(opts.orgMap[org]),
                                RenameFile(RemoveHost(org), file, RemoveHost(opts.orgMap[org]))>>)
                ELSE EmptyStr
        ELSE IF n = 1 THEN
            LET file == segments[n]
            IN  IF ~HasPrefix(file, opts.modifier)
                THEN JoinPath(<<opts.output, opts.modifier \o filenameSeparator \o file>>)
                ELSE EmptyStr
        ELSE
            LET file == Base(in)
            IN  IF ~HasPrefix(file, opts.modifier)
                THEN JoinPath(<<opts.output, opts.modifier \o filenameSeparator \o file>>)
                ELSE EmptyStr

-----------------------------------------------------------------------------
(* Jobs.  A job holds the fields of config.JobBase, config.UtilityConfig,  *)
(* the Brancher's branches and the ExtraRefs that the engine reads or      *)
(* writes.  A function that can panic returns [panic, job].                *)

BasePodSpec ==
    [ Containers   |-> << [Env |-> << >>, VolumeMounts |-> << >>] >>,
      Volumes      |-> << >>,
      NodeSelector |-> << >> ]

BaseJob ==
    [ Name             |-> JobA,
      Branches         |-> << >>,
      Labels           |-> EmptyMap,
      Annotations      |-> << >>,
      CloneURI         |-> EmptyStr,
      Cluster          |-> "",
      Spec             |-> <<BasePodSpec>>,
      ReporterConfig   |-> << >>,
      DecorationConfig |-> << >>,
      ExtraRefs        |-> << >> ]

Ok(job) == [panic |-> FALSE, job |-> job]

Panic(job) == [panic |-> TRUE, job |-> job]

\* The index of the first element of list named name, 0 when there is none.
IndexByName(list, name) ==
    IF \E j \in 1..Len(list) : list[j].Name = name
    THEN CHOOSE j \in 1..Len(list) : list[j].Name = name /\ \A k \in 1..(j - 1) : list[k].Name # name
    ELSE 0

-----------------------------------------------------------------------------
(* PresetResolver.                                                         *)

\* The label gate of mergePreset: every label of the preset is a label of
\* the job with the same value.
PresetMatches(labels, preset) ==
    \A l \in DOMAIN preset.Labels : l \in DOMAIN labels /\ labels[l] = preset.Labels[l]

\* UpsertEnv without the lookup of the name: the env is always appended.
UpsertEnv_AlwaysAppend(envs, env) == Append(envs, env)

\* One container's Env after one env of a preset (or of --env): the value of
\* the first variable of that name overwritten, else the env appended.
UpsertEnv(envs, env) ==
    LET j == IndexByName(envs, env.Name)
    IN  IF j > 0 THEN [envs EXCEPT ![j].Value = env.Value] ELSE Append(envs, env)

\* A list of volumes or of volume mounts after one item of a preset: the
\* first item of that name replaced, else the item appended.
UpsertByName(list, item) ==
    LET j == IndexByName(list, item.Name)
    IN  IF j > 0 THEN [list EXCEPT ![j] = item] ELSE Append(list, item)

RECURSIVE FoldEnv(_, _)
FoldEnv(envs, news) ==
    IF Len(news) = 0 THEN envs ELSE FoldEnv(UpsertEnv(envs, Head(news)), Tail(news))

RECURSIVE FoldByName(_, _)
FoldByName(list, news) ==
    IF Len(news) = 0 THEN list ELSE FoldByName(UpsertByName(list, Head(news)), Tail(news))

mergePreset(labels, job, preset) ==
    IF ~PresetMatches(labels, preset) THEN Ok(job)
    ELSE IF job.Spec = << >>
    THEN (IF Len(preset.Env) + Len(preset.Volumes) + Len(preset.VolumeMounts) > 0
          THEN Panic(job) ELSE Ok(job))
    ELSE
        LET sp == job.Spec[1]
            cs == [i \in 1..Len(sp.Containers) |->
                     [sp.Containers[i] EXCEPT
                        !.Env = FoldEnv(@, preset.Env),
                        !.VolumeMounts = FoldByName(@, preset.VolumeMounts)]]
        IN  Ok([job EXCEPT !.Spec = << [sp EXCEPT !.Containers = cs,
                                                  !.Volumes = FoldByName(@, preset.Volumes)] >>])

RECURSIVE MergeAll(_, _, _)
MergeAll(labels, r, presets) ==
    IF r.panic \/ Len(presets) = 0 THEN r
    ELSE MergeAll(labels, mergePreset(labels, r.job, Head(presets)), Tail(presets))

resolvePresets(opts, labels, job, presets) ==
    IF ~opts.resolve THEN Ok(job)
    ELSE IF job.Spec # << >> THEN MergeAll(labels, Ok(job), presets)
    ELSE Ok(job)

-----------------------------------------------------------------------------
(* FieldUpdater.                                                           *)

updateJobName(opts, job) ==
    LET suffix     == IF opts.modifier # EmptyStr THEN jobnameSeparator \o opts.modifier ELSE EmptyStr
        maxNameLen == maxLabelLen - Len(suffix)
        cut        == IF Len(job.Name) > maxNameLen THEN SliceTo(job.Name, maxNameLen)
                      ELSE [panic |-> FALSE, str |-> job.Name]
    IN  IF cut.panic THEN Panic(job)
        ELSE Ok([job EXCEPT !.Name = cut.str \o suffix])

updateGCSConfiguration(opts, dc) ==
    IF opts.bucket = "" THEN dc
    ELSE [dc EXCEPT !.GCSConfiguration = << [Bucket |-> opts.bucket] >>]

updateSSHKeySecrets(opts, dc) ==
    IF opts.sshKeySecret = "" THEN dc
    ELSE [dc EXCEPT !.SSHKeySecrets = Append(@, opts.sshKeySecret)]

updateUtilityConfig(opts, job) ==
    IF opts.bucket = "" /\ opts.sshKeySecret = "" THEN Ok(job)
    ELSE
        LET dc == IF job.DecorationConfig = << >>
                  THEN [GCSConfiguration |-> << >>, SSHKeySecrets |-> << >>]
                  ELSE job.DecorationConfig[1]
        IN  Ok([job EXCEPT !.DecorationConfig =
                    << updateSSHKeySecrets(opts, updateGCSConfiguration(opts, dc)) >>])

updateReporterConfig(opts, job) ==
    IF opts.channel = "" THEN Ok(job)
    ELSE Ok([job EXCEPT !.ReporterConfig = << [Slack |-> << [Channel |-> opts.channel] >>] >>])

updateLabels(opts, job) ==
    IF DOMAIN opts.labels = {} THEN Ok(job)
    ELSE Ok([job EXCEPT !.Labels = Overlay(@, opts.labels)])

\* updateNodeSelector where override-selector is not looked at.
updateNodeSelector_NoOverride(opts, job) ==
    IF DOMAIN opts.selector = {} THEN Ok(job)
    ELSE IF job.Spec = << >> THEN Panic(job)
    ELSE
        LET sp   == job.Spec[1]
            base == IF sp.NodeSelector = << >> THEN EmptyMap ELSE sp.NodeSelector[1]
        IN  Ok([job EXCEPT !.Spec = << [sp EXCEPT !.NodeSelector = << Overlay(base, opts.selector) >>] >>])

updateNodeSelector(opts, job) ==
    IF DOMAIN opts.selector = {} THEN Ok(job)
    ELSE IF job.Spec = << >> THEN Panic(job)
    ELSE
        LET sp   == job.Spec[1]
            base == IF opts.overrideSelector \/ sp.NodeSelector = << >>
                    THEN EmptyMap ELSE sp.NodeSelector[1]
        IN  Ok([job EXCEPT !.Spec = << [sp EXCEPT !.NodeSelector = << Overlay(base, opts.selector) >>] >>])

\* The names of environment variables in the order util.SortedKeys sorts them.
EnvNameOrder == <<"BAR", "BAZ", "FOO">>

\* util.SortedKeys.
SortedKeys(m) == SelectSeq(EnvNameOrder, LAMBDA k : k \in DOMAIN m)

updateEnvs(opts, job) ==
    IF DOMAIN opts.env = {} THEN Ok(job)
    ELSE IF job.Spec = << >> THEN Panic(job)
    ELSE
        LET sp   == job.Spec[1]
            keys == SortedKeys(opts.env)
            news == [i \in 1..Len(keys) |-> [Name |-> keys[i], Value |-> opts.env[keys[i]], ValueFrom |-> ""]]
            cs   == [i \in 1..Len(sp.Containers) |->
                       [sp.Containers[i] EXCEPT !.Env = FoldEnv(@, news)]]
        IN  Ok([job EXCEPT !.Spec = << [sp EXCEPT !.Containers = cs] >>])

\* fmt.Sprintf("git@%s:%s.git", gitHost, orgrepo).
SSHCloneURI(orgrepo) == <<"g", "i", "t", "@">> \o gitHost \o <<":">> \o orgrepo \o <<".", "g", "i", "t">>

\* One of the five update calls that end updateJobBase.
BaseStep(opts, step, job) ==
    CASE step = "updateJobName"        -> updateJobName(opts, job)
      [] step = "updateReporterConfig" -> updateReporterConfig(opts, job)
      [] step = "updateLabels"         -> updateLabels(opts, job)
      [] step = "updateNodeSelector"   -> updateNodeSelector(opts, job)
      [] step = "updateEnvs"           -> updateEnvs(opts, job)

\* The calls steps one after the other; a panic skips the rest.
RECURSIVE RunBaseSteps(_, _, _)
RunBaseSteps(opts, steps, r) ==
    IF r.panic \/ Len(steps) = 0 THEN r
    ELSE RunBaseSteps(opts, Tail(steps), BaseStep(opts, Head(steps), r.job))

updateJobBase(opts, job, orgrepo) ==
    RunBaseSteps(opts,
        <<"updateJobName", "updateReporterConfig", "updateLabels", "updateNodeSelector", "updateEnvs">>,
        Ok([job EXCEPT
              !.Annotations = << >>,
              !.CloneURI = IF opts.sshClone /\ orgrepo # EmptyStr THEN SSHCloneURI(orgrepo) ELSE @,
              !.Cluster = IF opts.cluster # "" /\ opts.cluster # defaultCluster THEN opts.cluster ELSE @]))

\* One ref after updateExtraRefs.
updateExtraRef(opts, ref) ==
    IF opts.extraRefs \/ validateOrgRepo(opts, ref.Org, ref.Repo)
    THEN LET org == MapGet(opts.orgMap, ref.Org)
         IN  [ref EXCEPT !.Org = org,
                         !.CloneURI = IF opts.sshClone
                                      THEN SSHCloneURI(org \o <<"/">> \o ref.Repo)
                                      ELSE @]
    ELSE ref

updateExtraRefs(opts, refs) == [i \in 1..Len(refs) |-> updateExtraRef(opts, refs[i])]

-----------------------------------------------------------------------------
(* The walk callback of Main: one input file into its job bundle.          *)

\* The orders in which a range over a Go map with the keys S may visit them.
Perms(S) == {q \in [1..Cardinality(S) -> S] : \A x \in S : \E i \in 1..Cardinality(S) : q[i] = x}

EmptyJobMap == [k \in {} |-> << >>]

\* combinePresets: the presets of every preset file that parses.
RECURSIVE combinePresets(_)
combinePresets(paths) ==
    IF Len(paths) = 0 THEN << >>
    ELSE (IF Head(paths).ok THEN Head(paths).presets ELSE << >>) \o combinePresets(Tail(paths))

\* One of the four update calls Main makes for a job that passed validation.
JobStep(opts, presets, orgrepo, step, job) ==
    CASE step = "updateExtraRefs"     -> Ok([job EXCEPT !.ExtraRefs = updateExtraRefs(opts, @)])
      [] step = "updateJobBase"       -> updateJobBase(opts, job, orgrepo)
      [] step = "updateUtilityConfig" -> updateUtilityConfig(opts, job)
      [] step = "resolvePresets"      -> resolvePresets(opts, job.Labels, job, presets)

RECURSIVE RunJobSteps(_, _, _, _, _)
RunJobSteps(opts, presets, orgrepo, steps, r) ==
    IF r.panic \/ Len(steps) = 0 THEN r
    ELSE RunJobSteps(opts, presets, orgrepo, Tail(steps),
                     JobStep(opts, presets, orgrepo, Head(steps), r.job))

\* The four updates of one job that passed validation (Main, the body of
\* each of the three job loops).
ProcessJob(opts, presets, job, orgrepo) ==
    RunJobSteps(opts, presets, orgrepo,
        <<"updateExtraRefs", "updateJobBase", "updateUtilityConfig", "resolvePresets">>, Ok(job))

\* acc after the updated job r: the job appended, unless the update panicked.
AppendJob(acc, r) == [panic |-> r.panic, jobs |-> IF r.panic THEN acc ELSE Append(acc, r.job)]

\* One round of the inner loop over the presubmits or postsubmits of one
\* org/repo: the job skipped when validateJob fails, else updated and appended.
ConvertJob(opts, presets, job, orgrepo, jType, acc) ==
    IF ~validateJob(opts, job.Name, job.Branches, jType)
    THEN [panic |-> FALSE, jobs |-> acc]
    ELSE AppendJob(acc, ProcessJob(opts, presets, job, orgrepo))

\* One round of the loop over the periodics.
ConvertPeriodic(opts, presets, job, acc) ==
    IF \/ ~validateJob(opts, job.Name, << >>, "periodic")
       \/ Len(job.ExtraRefs) = 0
       \/ \A i \in 1..Len(job.ExtraRefs) :
             ~validateOrgRepo(opts, job.ExtraRefs[i].Org, job.ExtraRefs[i].Repo)
    THEN [panic |-> FALSE, jobs |-> acc]
    ELSE AppendJob(acc, ProcessJob(opts, presets, job, EmptyStr))

\* A loop over the jobs of one list: of one org/repo (jType presubmit or
\* postsubmit), or the periodics (orgrepo empty).  r is the loop's state.
RECURSIVE ConvertJobs(_, _, _, _, _, _)
ConvertJobs(opts, presets, jobs, orgrepo, jType, r) ==
    IF r.panic \/ Len(jobs) = 0 THEN r
    ELSE ConvertJobs(opts, presets, Tail(jobs), orgrepo, jType,
                     IF jType = "periodic"
                     THEN ConvertPeriodic(opts, presets, Head(jobs), r.jobs)
                     ELSE ConvertJob(opts, presets, Head(jobs), orgrepo, jType, r.jobs))

\* acc with the jobs r converted for orgrepo stored under that key; no key
\* is made for an org/repo none of whose jobs passed.
StoreJobs(acc, orgrepo, r) ==
    [ panic |-> r.panic,
      map   |-> IF Len(r.jobs) = 0 THEN acc
                ELSE [k \in (DOMAIN acc) \cup {orgrepo} |-> IF k = orgrepo THEN r.jobs ELSE acc[k]] ]

\* One round of the outer loop, for the jobs of a key remapped to orgrepo.
ConvertKey(opts, presets, jobs, orgrepo, jType, acc) ==
    IF orgrepo = EmptyStr THEN [panic |-> FALSE, map |-> acc]
    ELSE StoreJobs(acc, orgrepo,
             ConvertJobs(opts, presets, jobs, orgrepo, jType,
                 [panic |-> FALSE, jobs |-> IF orgrepo \in DOMAIN acc THEN acc[orgrepo] ELSE << >>]))

\* The outer loop over the org/repo keys of the file, visited in the order
\* ord.  r is the loop's state.
RECURSIVE ConvertMap(_, _, _, _, _, _)
ConvertMap(opts, presets, m, ord, jType, r) ==
    IF r.panic \/ Len(ord) = 0 THEN r
    ELSE ConvertMap(opts, presets, m, Tail(ord), jType,
                    ConvertKey(opts, presets, m[Head(ord)], convertOrgRepoStr(opts, Head(ord)),
                               jType, r.map))

\* The three job loops one after the other: kinds names the loops left to
\* run, b is the bundle so far.
BundleStep(opts, presets, file, ordPre, ordPost, kind, b) ==
    CASE kind = "presubmit" ->
            [b EXCEPT !.pre = ConvertMap(opts, presets, file.pre, ordPre, kind,
                                         [panic |-> FALSE, map |-> EmptyJobMap])]
      [] kind = "postsubmit" ->
            [b EXCEPT !.post = ConvertMap(opts, presets, file.post, ordPost, kind,
                                          [panic |-> FALSE, map |-> EmptyJobMap])]
      [] kind = "periodic" ->
            [b EXCEPT !.per = ConvertJobs(opts, presets, file.per, EmptyStr, kind,
                                          [panic |-> FALSE, jobs |-> << >>])]

RECURSIVE RunBundleSteps(_, _, _, _, _, _, _)
RunBundleSteps(opts, presets, file, ordPre, ordPost, kinds, b) ==
    IF b.pre.panic \/ b.post.panic \/ b.per.panic \/ Len(kinds) = 0 THEN b
    ELSE RunBundleSteps(opts, presets, file, ordPre, ordPost, Tail(kinds),
                        BundleStep(opts, presets, file, ordPre, ordPost, Head(kinds), b))

\* The presubmit, postsubmit and periodic the callback builds for one parsed
\* file, its maps visited in the orders ordPre and ordPost.
Bundled(b) ==
    [ panic |-> b.pre.panic \/ b.post.panic \/ b.per.panic,
      pre   |-> b.pre.map,
      post  |-> b.post.map,
      per   |-> b.per.jobs ]

FileBundle(opts, file, ordPre, ordPost) ==
    Bundled(RunBundleSteps(opts, combinePresets(opts.presets) \o file.presets, file, ordPre, ordPost,
                           <<"presubmit", "postsubmit", "periodic">>,
                           [ pre  |-> [panic |-> FALSE, map |-> EmptyJobMap],
                             post |-> [panic |-> FALSE, map |-> EmptyJobMap],
                             per  |-> [panic |-> FALSE, jobs |-> << >>] ]))

-----------------------------------------------------------------------------
(* OutputMerger and the output file system.                                *)

\* os.RemoveAll(p): p and everything below it.
cleanOutFile(fsys, p) ==
    [q \in {x \in DOMAIN fsys : ~(x = p \/ HasPrefix(x, p \o <<"/">>))} |-> fsys[q]]

\* cleanOutDir: the loop over the mapped orgs, visited in the order ord; p
\* grows by one path element with every org.
RECURSIVE cleanOutDir(_, _, _, _)
cleanOutDir(opts, fsys, p, ord) ==
    IF Len(ord) = 0 THEN fsys
    ELSE LET q == JoinPath(<<p, GetTopLevelOrg(opts.orgMap[Head(ord)])>>)
         IN  cleanOutDir(opts, cleanOutFile(fsys, q), q, Tail(ord))

\* config.ReadJobConfig of an output path: an error when there is no file
\* or it does not parse.
ReadJobConfig(fsys, p) ==
    IF p \in DOMAIN fsys /\ fsys[p].valid
    THEN [err |-> FALSE, pre |-> fsys[p].pre, post |-> fsys[p].post, per |-> fsys[p].per]
    ELSE [err |-> TRUE, pre |-> EmptyJobMap, post |-> EmptyJobMap, per |-> << >>]

\* The per-key merge of writeOutFile: new entries after the existing ones.
CombineMaps(old, new) ==
    [k \in (DOMAIN old) \cup (DOMAIN new) |->
        IF k \in DOMAIN new
        THEN (IF k \in DOMAIN old THEN old[k] \o new[k] ELSE new[k])
        ELSE old[k]]

writeOutFile(fsys, p, pre, post, per) ==
    IF DOMAIN pre = {} /\ DOMAIN post = {} /\ Len(per) = 0 THEN fsys
    ELSE
        LET existing == ReadJobConfig(fsys, p)
            content  == [ valid  |-> TRUE,
                          header |-> autogenHeader,
                          pre    |-> CombineMaps(existing.pre, pre),
                          post   |-> CombineMaps(existing.post, post),
                          per    |-> existing.per \o per ]
        IN  [q \in (DOMAIN fsys) \cup {p} |-> IF q = p THEN content ELSE fsys[q]]

-----------------------------------------------------------------------------
(* Calls of one function: the arguments are drawn by Init, the action      *)
(* applies the function and stores what it returns.                        *)

NoFiles == << >>

NoFS == [q \in {} |-> << >>]

CallInit(optSet, argSet) ==
    /\ o \in optSet
    /\ arg \in argSet
    /\ ret = << >>
    /\ pc = "call"
    /\ files = NoFiles
    /\ fs = NoFS
    /\ fs0 = NoFS
    /\ idx = 0

Return(v) ==
    /\ pc = "call"
    /\ pc' = "ret"
    /\ ret' = v
    /\ UNCHANGED <<o, files, fs, fs0, idx, arg>>

-----------------------------------------------------------------------------
(* SpecFilter: calls of validateJob.                                       *)

MaxBranches == 2

MaxPatterns == 2

FilterOptions ==
    { [DefaultOptions EXCEPT !.jobBlacklist = deny, !.jobWhitelist = allow,
                             !.branches = br, !.jobType = jt] :
        deny \in SUBSET {JobA, JobB}, allow \in SUBSET {JobA, JobB},
        br \in SeqsUpTo({BranchMain, BranchDev, BranchRel}, MaxBranches),
        jt \in {JobTypes, {"presubmit"}, {}} }

FilterArgs ==
    [ name : {JobA, JobB},
      patterns : SeqsUpTo({PatMain, PatRel, PatDev}, MaxPatterns),
      jType : JobTypes ]

InitFilter == CallInit(FilterOptions, FilterArgs)

CallValidateJob == Return(validateJob(o, arg.name, arg.patterns, arg.jType))

NextFilter == CallValidateJob

SpecFilter == InitFilter /\ [][NextFilter]_vars

\* C7: validateJob allows a job if and only if its name is not in the deny
\* set, the allow set is empty or holds the name, a configured branch matches
\* one of the job's patterns (or no branch is configured), and the job type
\* is in the job-type allow set; so a denied name is excluded whatever the
\* allow set holds.
C7_JobAllowedIff ==
    pc = "ret" =>
        /\ ret = ( /\ arg.name \notin o.jobBlacklist
                   /\ (o.jobWhitelist = {} \/ arg.name \in o.jobWhitelist)
                   /\ ( \/ o.branches = << >>
                        \/ \E i \in DOMAIN o.branches : \E j \in DOMAIN arg.patterns :
                              MatchString(arg.patterns[j], o.branches[i]) )
                   /\ arg.jType \in o.jobType )
        /\ (arg.name \in o.jobBlacklist => ret = FALSE)

C7_Witness ==
    /\ pc = "ret"
    /\ arg.name \in o.jobBlacklist
    /\ arg.name \in o.jobWhitelist
    /\ Len(o.branches) > 0
    /\ isMatchBranch(o, arg.patterns)
    /\ arg.jType \in o.jobType
    /\ ret = FALSE

\* C11: a job with no branch patterns (a presubmit or postsubmit that names
\* no branches, or a periodic) is allowed by validateJob whenever its name
\* passes the deny and allow sets and its job type is allowed, whatever
\* branches are configured.
C11_NoPatternsMeansAllBranches ==
    ( /\ pc = "ret"
      /\ arg.patterns = << >>
      /\ arg.name \notin o.jobBlacklist
      /\ (o.jobWhitelist = {} \/ arg.name \in o.jobWhitelist)
      /\ arg.jType \in o.jobType ) => ret = TRUE

-----------------------------------------------------------------------------
(* SpecRoute: calls of convertOrgRepoStr and of getOutPath.                *)

MaxDirs == 3

OutDir == <<"/", "o", "u", "t">>

OutFile == <<"/", "o", "u", "t", ".", "y", "a", "m", "l">>

OutFileYml == <<"/", "o", "u", "t", "/", "a", "l", "l", ".", "y", "m", "l">>

FileJob == <<"j", "o", "b", ".", "y", "a", "m", "l">>

FileOrgA == OrgA \o <<".", "j", "o", "b", ".", "y", "a", "m", "l">>

FilePrivate == defaultModifier \o <<".", "j", ".", "y", "m", "l">>

RouteOptions ==
    { [DefaultOptions EXCEPT !.orgMap = om, !.output = out, !.modifier = md,
                             !.repoBlacklist = deny, !.repoWhitelist = allow] :
        om \in OrgMaps, out \in {OutDir, OutFile, OutFileYml},
        md \in {defaultModifier, EmptyStr},
        deny \in {{}, {RepoX}}, allow \in {{}, {RepoY}} }

RouteArgs ==
    { [fn |-> "convertOrgRepoStr", org |-> org, repo |-> repo, segs |-> << >>] :
        org \in {OrgA, OrgB, OrgC, OrgD}, repo \in {RepoX, RepoY} }
    \cup
    { [fn |-> "getOutPath", org |-> EmptyStr, repo |-> EmptyStr, segs |-> d \o <<f>>] :
        d \in SeqsUpTo({OrgA, OrgB, OrgC, RepoX}, MaxDirs),
        f \in {FileJob, FileOrgA, FilePrivate} }
    \cup
    { [fn |-> "getOutPath", org |-> EmptyStr, repo |-> EmptyStr, segs |-> << >>] }

InitRoute == CallInit(RouteOptions, RouteArgs)

\* The absolute path of the input file with the segments segs below the input.
InputPath(opts, segs) ==
    IF Len(segs) = 0 THEN opts.input ELSE opts.input \o <<"/">> \o JoinStrings(segs, <<"/">>)

CallConvertOrgRepoStr ==
    /\ arg.fn = "convertOrgRepoStr"
    /\ Return(convertOrgRepoStr(o, OrgRepoStr(arg.org, arg.repo)))

CallGetOutPath ==
    /\ arg.fn = "getOutPath"
    /\ Return(getOutPath(o, InputPath(o, arg.segs), o.input))

NextRoute == CallConvertOrgRepoStr \/ CallGetOutPath

SpecRoute == InitRoute /\ [][NextRoute]_vars

\* The org directory of an input of two segments [org, file], or of three or
\* more [.., org, repo, file].
OrgSegment(segs) == IF Len(segs) = 2 THEN segs[1] ELSE segs[Len(segs) - 2]

UnmappedIdentityEmpty ==
    (arg.fn = "convertOrgRepoStr" /\ arg.org \notin DOMAIN o.orgMap) => ret = EmptyStr

UnmappedPathCase ==
    /\ arg.fn = "getOutPath"
    /\ Len(arg.segs) >= 2
    /\ OrgSegment(arg.segs) \notin DOMAIN o.orgMap

\* C1 as stated: for an org without a mapping and for every configuration,
\* convertOrgRepoStr returns the empty identity and getOutPath returns no
\* path for the inputs of two and of three or more segments under that org.
C1_UnmappedYieldsNothing ==
    pc = "ret" => /\ UnmappedIdentityEmpty
                  /\ (UnmappedPathCase => ret = EmptyStr)

\* C1 as amended: the same, for getOutPath when the configured output is a
\* directory; when the output is a single YAML file, getOutPath returns that
\* file for every input.
C1_UnmappedYieldsNothingUnlessFileOutput ==
    pc = "ret" => /\ UnmappedIdentityEmpty
                  /\ (UnmappedPathCase =>
                        ret = IF o.output \in {OutFile, OutFileYml} THEN o.output ELSE EmptyStr)

C1_Witness ==
    /\ pc = "ret"
    /\ UnmappedPathCase
    /\ Len(arg.segs) >= 3
    /\ o.output = OutDir
    /\ ret = EmptyStr

-----------------------------------------------------------------------------
(* SpecName: calls of updateJobName.                                       *)

MaxNameLen == 70

MaxModifierLen == 64

Alphabet ==
    << "a", "b", "c", "d", "e", "f", "g", "h", "i", "j", "k", "l", "m", "n", "o", "p", "q",
       "r", "s", "t", "u", "v", "w", "x", "y", "z", "0", "1", "2", "3", "4", "5", "6", "7",
       "8", "9", "-" >>

\* A string of n characters, no two neighbours alike.
StringOfLen(n) == [i \in 1..n |-> Alphabet[((i - 1) % Len(Alphabet)) + 1]]

NameOptions ==
    { [DefaultOptions EXCEPT !.modifier = md] :
        md \in {defaultModifier} \cup {StringOfLen(n) : n \in 0..MaxModifierLen} }

NameArgs == { [job |-> [BaseJob EXCEPT !.Name = StringOfLen(n)]] : n \in 0..MaxNameLen }

InitName == CallInit(NameOptions, NameArgs)

CallUpdateJobName == Return(updateJobName(o, arg.job))

NextName == CallUpdateJobName

SpecName == InitName /\ [][NextName]_vars

NameSuffix(opts) == IF opts.modifier = EmptyStr THEN EmptyStr ELSE <<"_">> \o opts.modifier

\* C2: for every base name and every modifier, updateJobName returns
\* normally, the final name is at most 63 characters long, it ends with
\* "_" + modifier (with nothing when the modifier is empty), and what comes
\* before the suffix is a prefix of the base name; a name of 70 characters
\* with the modifier "private" keeps 55 characters and ends at 63.
C2_NameFitsLabel ==
    pc = "ret" =>
        /\ ~ret.panic
        /\ Len(ret.job.Name) <= 63
        /\ HasSuffix(ret.job.Name, NameSuffix(o))
        /\ HasPrefix(arg.job.Name,
                     SubSeq(ret.job.Name, 1, Len(ret.job.Name) - Len(NameSuffix(o))))
        /\ (Len(arg.job.Name) = 70 /\ o.modifier = defaultModifier =>
                /\ Len(ret.job.Name) = 63
                /\ SubSeq(ret.job.Name, 1, 55) = SubSeq(arg.job.Name, 1, 55))

-----------------------------------------------------------------------------
(* SpecSelector: calls of updateNodeSelector.                              *)

PartialMaps(K, V) == UNION {[d -> V] : d \in SUBSET K}

SelectorMaps == PartialMaps({"zone", "disk"}, {"us", "eu", "ssd"})

SelectorOptions ==
    { [DefaultOptions EXCEPT !.selector = sel, !.overrideSelector = ov] :
        sel \in SelectorMaps, ov \in BOOLEAN }

SelectorArgs ==
    { [job |-> [BaseJob EXCEPT !.Spec = << [BasePodSpec EXCEPT !.NodeSelector = e] >>]] :
        e \in {<< >>} \cup {<<m>> : m \in SelectorMaps} }
    \cup { [job |-> [BaseJob EXCEPT !.Spec = << >>]] }

InitSelector == CallInit(SelectorOptions, SelectorArgs)

CallUpdateNodeSelector == Return(updateNodeSelector(o, arg.job))

NextSelector == CallUpdateNodeSelector

SpecSelector == InitSelector /\ [][NextSelector]_vars

\* Whether the job has a node selector, and the mapping it holds (the empty
\* mapping when it has none).
HasSelector(job) == job.Spec # << >> /\ job.Spec[1].NodeSelector # << >>

SelectorOf(job) == IF HasSelector(job) THEN job.Spec[1].NodeSelector[1] ELSE EmptyMap

\* What C6 says of a call that has returned: with override-selector enabled,
\* or for a job without a selector, the resulting selector is exactly the
\* configured overlay S; with override-selector disabled and an existing
\* selector E, the result is E with the keys of S written over it and every
\* other key of E kept.
SelectorOverlaid ==
    /\ ~ret.panic
    /\ (o.overrideSelector \/ ~HasSelector(arg.job)) => SelectorOf(ret.job) = o.selector
    /\ (~o.overrideSelector /\ HasSelector(arg.job)) =>
           LET E == SelectorOf(arg.job)
               R == SelectorOf(ret.job)
           IN  /\ DOMAIN R = (DOMAIN E) \cup (DOMAIN o.selector)
               /\ \A k \in DOMAIN o.selector : R[k] = o.selector[k]
               /\ \A k \in (DOMAIN E) \ (DOMAIN o.selector) : R[k] = E[k]

-----------------------------------------------------------------------------
(* SpecRefs: calls of updateExtraRefs.                                     *)

MaxRefs == 2

UriPublic == <<"h", "t", "t", "p", "s", ":", "/", "/", "x">>

RefSet ==
    [ Org : {OrgA, OrgB, OrgC}, Repo : {RepoX, RepoY}, CloneURI : {EmptyStr, UriPublic} ]

RefsOptions ==
    { [DefaultOptions EXCEPT !.extraRefs = force, !.sshClone = ssh, !.orgMap = om,
                             !.repoBlacklist = deny, !.repoWhitelist = allow] :
        force \in BOOLEAN, ssh \in BOOLEAN, om \in OrgMaps,
        deny \in {{}, {RepoX}}, allow \in {{}, {RepoY}} }

RefsArgs == { [refs |-> r] : r \in SeqsUpTo(RefSet, MaxRefs) }

InitRefs == CallInit(RefsOptions, RefsArgs)

CallUpdateExtraRefs == Return(updateExtraRefs(o, arg.refs))

NextRefs == CallUpdateExtraRefs

SpecRefs == InitRefs /\ [][NextRefs]_vars

\* orgRepoAllowed, as section 4.1 words it.
OrgRepoAllowed(opts, org, repo) ==
    /\ org \in DOMAIN opts.orgMap
    /\ repo \notin opts.repoBlacklist
    /\ (opts.repoWhitelist = {} \/ repo \in opts.repoWhitelist)

\* C9: updateExtraRefs keeps the number and the order of the refs; a ref
\* that does not qualify (force off and orgRepoAllowed false) keeps its org,
\* repo and clone URI; a ref that qualifies gets the mapping's value for its
\* org, a non-empty private org name, keeps its repo, and gets the clone URI
\* git@github.com:<mapped org>/<repo>.git exactly when SSH-clone mode is on.
C9_ExtraRefsRemapped ==
    pc = "ret" =>
        /\ Len(ret) = Len(arg.refs)
        /\ \A i \in 1..Len(arg.refs) :
              LET old == arg.refs[i]
                  new == ret[i]
              IN  IF o.extraRefs \/ OrgRepoAllowed(o, old.Org, old.Repo)
                  THEN /\ new.Org # EmptyStr
                       /\ old.Org \in DOMAIN o.orgMap
                       /\ new.Org = o.orgMap[old.Org]
                       /\ new.Repo = old.Repo
                       /\ new.CloneURI =
                            IF o.sshClone
                            THEN <<"g", "i", "t", "@", "g", "i", "t", "h", "u", "b", ".", "c", "o", "m", ":">>
                                 \o new.Org \o <<"/">> \o old.Repo \o <<".", "g", "i", "t">>
                            ELSE old.CloneURI
                  ELSE new = old

-----------------------------------------------------------------------------
(* SpecPreset: mergePreset applied to a job, and applied again to the      *)
(* result.  Environment variables, volumes and volume mounts are keyed by  *)
(* name: no list of the inputs holds a name twice.                         *)

MaxContainers == 2

EnvFooOld == [Name |-> "FOO", Value |-> "old", ValueFrom |-> ""]

EnvFooRef == [Name |-> "FOO", Value |-> "", ValueFrom |-> "secret"]

EnvBarOld == [Name |-> "BAR", Value |-> "old", ValueFrom |-> ""]

EnvFooBar == [Name |-> "FOO", Value |-> "bar", ValueFrom |-> ""]

EnvBazQux == [Name |-> "BAZ", Value |-> "qux", ValueFrom |-> ""]

ContainerEnvs ==
    { << >>, <<EnvFooOld>>, <<EnvFooRef>>, <<EnvBarOld>>, <<EnvFooOld, EnvBarOld>>,
      <<EnvBarOld, EnvFooRef>> }

PresetEnvs ==
    { << >>, <<EnvFooBar>>, <<EnvBazQux>>, <<EnvFooBar, EnvBazQux>>, <<EnvBazQux, EnvFooBar>> }

MountOld == [Name |-> "vol", MountPath |-> "/old"]

MountNew == [Name |-> "vol", MountPath |-> "/new"]

VolumeOld == [Name |-> "vol", Source |-> "old"]

VolumeOther == [Name |-> "other", Source |-> "old"]

VolumeNew == [Name |-> "vol", Source |-> "new"]

PresetContainers == [Env : ContainerEnvs, VolumeMounts : {<< >>, <<MountOld>>}]

GateLabels == [k \in {"preset-x"} |-> "true"]

PresetSet ==
    [ Labels : {EmptyMap, GateLabels},
      Env : PresetEnvs,
      Volumes : {<< >>, <<VolumeNew>>},
      VolumeMounts : {<< >>, <<MountNew>>} ]

PresetArgs ==
    { [ labels |-> lb,
        preset |-> ps,
        job    |-> [BaseJob EXCEPT !.Labels = lb,
                                   !.Spec = << [BasePodSpec EXCEPT !.Containers = cs,
                                                                   !.Volumes = vs] >>] ] :
        lb \in { [k \in {"preset-x", "other"} |-> IF k = "other" THEN "y" ELSE "true"],
                 [k \in {"preset-x"} |-> "false"] },
        ps \in PresetSet,
        cs \in SeqsUpTo(PresetContainers, MaxContainers),
        vs \in {<< >>, <<VolumeOther, VolumeOld>>} }

InitPreset == CallInit({DefaultOptions}, PresetArgs)

MergePresetOnce ==
    /\ pc = "call"
    /\ pc' = "once"
    /\ ret' = <<mergePreset(arg.labels, arg.job, arg.preset)>>
    /\ UNCHANGED <<o, files, fs, fs0, idx, arg>>

MergePresetAgain ==
    /\ pc = "once"
    /\ ~ret[1].panic
    /\ pc' = "twice"
    /\ ret' = Append(ret, mergePreset(arg.labels, ret[1].job, arg.preset))
    /\ UNCHANGED <<o, files, fs, fs0, idx, arg>>

NextPreset == MergePresetOnce \/ MergePresetAgain

SpecPreset == InitPreset /\ [][NextPreset]_vars

\* The number of elements of list named name.
CountByName(list, name) == Cardinality({j \in 1..Len(list) : list[j].Name = name})

\* C5: a matching preset applied twice gives the job that applying it once
\* gives: in every container each variable name of the preset is the name
\* of exactly one entry, which holds the preset's value, and the volumes and
\* the mounts of each container named by the preset are there once.
C5_PresetIdempotent ==
    (pc = "twice" /\ PresetMatches(arg.labels, arg.preset)) =>
        LET once  == ret[1].job.Spec[1]
            twice == ret[2].job.Spec[1]
            ps    == arg.preset
        IN  /\ ~ret[2].panic
            /\ ret[2].job = ret[1].job
            /\ \A i \in 1..Len(twice.Containers) :
                 /\ \A e \in 1..Len(ps.Env) :
                      /\ CountByName(twice.Containers[i].Env, ps.Env[e].Name) = 1
                      /\ \E j \in 1..Len(twice.Containers[i].Env) :
                            /\ twice.Containers[i].Env[j].Name = ps.Env[e].Name
                            /\ twice.Containers[i].Env[j].Value = ps.Env[e].Value
                 /\ \A m \in 1..Len(ps.VolumeMounts) :
                      CountByName(twice.Containers[i].VolumeMounts, ps.VolumeMounts[m].Name) = 1
            /\ \A v \in 1..Len(ps.Volumes) :
                 /\ CountByName(twice.Volumes, ps.Volumes[v].Name) = 1
                 /\ CountByName(once.Volumes, ps.Volumes[v].Name) = 1

C5_Witness ==
    /\ pc = "twice"
    /\ PresetMatches(arg.labels, arg.preset)
    /\ Len(arg.preset.Env) = 2
    /\ Len(arg.preset.Volumes) = 1
    /\ Len(arg.job.Spec[1].Containers) = 2
    /\ arg.job.Spec[1].Containers[1].Env = <<EnvFooOld, EnvBarOld>>
    /\ arg.job.Spec[1].Containers[2].Env = << >>
    /\ ret[2].job.Spec[1].Containers[1].Env = <<EnvFooBar, EnvBarOld, EnvBazQux>>

-----------------------------------------------------------------------------
(* Spec: a run of Main over an input tree.                                 *)

MaxFiles == 2

KeyAX == OrgRepoStr(OrgA, RepoX)

KeyBX == OrgRepoStr(OrgB, RepoX)

KeyCY == OrgRepoStr(OrgC, RepoY)

EnvContainer(envs) == [Env |-> envs, VolumeMounts |-> << >>]

PresetFoo ==
    [Labels |-> GateLabels, Env |-> <<EnvFooBar>>, Volumes |-> <<VolumeNew>>, VolumeMounts |-> <<MountNew>>]

PreMain ==
    [BaseJob EXCEPT !.Name = JobA, !.Branches = <<PatMain>>, !.Labels = GateLabels,
                    !.Annotations = << [k \in {"note"} |-> "public"] >>,
                    !.Spec = << [BasePodSpec EXCEPT !.Containers = <<EnvContainer(<<EnvFooOld>>)>>] >>]

PreDev == [BaseJob EXCEPT !.Name = JobB, !.Branches = <<PatDev, PatRel>>]

PostAny ==
    [BaseJob EXCEPT !.Name = JobB,
                    !.ExtraRefs = << [Org |-> OrgC, Repo |-> RepoY, CloneURI |-> UriPublic] >>]

PerRefs ==
    [BaseJob EXCEPT !.Name = JobA,
                    !.ExtraRefs = << [Org |-> OrgA, Repo |-> RepoX, CloneURI |-> EmptyStr] >>]

PerNoRefs == [BaseJob EXCEPT !.Name = JobB]

PreNoSpec == [BaseJob EXCEPT !.Name = JobB, !.Spec = << >>]

PreOld == [BaseJob EXCEPT !.Name = <<"o", "l", "d">>]

\* What config.ReadJobConfig gives for an input file: ok is FALSE when the
\* file does not parse.
FileContents ==
    { [ok |-> FALSE, pre |-> EmptyJobMap, post |-> EmptyJobMap, per |-> << >>, presets |-> << >>],
      [ok |-> TRUE, pre |-> [k \in {KeyAX} |-> <<PreMain, PreDev>>], post |-> EmptyJobMap,
       per |-> << >>, presets |-> << >>],
      [ok |-> TRUE, pre |-> EmptyJobMap, post |-> [k \in {KeyAX} |-> <<PostAny>>],
       per |-> <<PerNoRefs, PerRefs>>, presets |-> << >>],
      [ok |-> TRUE, pre |-> [k \in {KeyAX, KeyCY} |-> IF k = KeyAX THEN <<PreMain>> ELSE <<PreDev>>],
       post |-> EmptyJobMap, per |-> << >>, presets |-> <<PresetFoo>>],
      [ok |-> TRUE, pre |-> [k \in {KeyAX} |-> <<PreNoSpec>>], post |-> EmptyJobMap,
       per |-> << >>, presets |-> << >>] }

Yaml == <<".", "y", "a", "m", "l">>

\* The paths below the input directory, in the lexical order filepath.Walk
\* visits them.
WalkOrder ==
    << << <<"a">>, OrgA, RepoX, <<"j", "o", "b">> \o Yaml >>,
       << <<"b">>, OrgA, RepoX, <<"j", "o", "b">> \o Yaml >>,
       << <<"j", "o", "b", "s">> \o Yaml >>,
       << <<"n", "o", "t", "e", "s", ".", "t", "x", "t">> >>,
       << OrgC, RepoY, <<"j", "o", "b">> \o Yaml >> >>

\* The input file at the path segs below the input directory.
FileAt(segs, c) ==
    [segs |-> segs, ok |-> c.ok, pre |-> c.pre, post |-> c.post, per |-> c.per,
     presets |-> c.presets]

\* The input trees: up to n of the paths from the i-th on, each with a
\* content, in walk order.
RECURSIVE TreesFrom(_, _)
TreesFrom(i, n) ==
    IF i > Len(WalkOrder) \/ n = 0 THEN { << >> }
    ELSE TreesFrom(i + 1, n)
         \cup { <<FileAt(WalkOrder[i], c)>> \o t : c \in FileContents, t \in TreesFrom(i + 1, n - 1) }

InputTrees == TreesFrom(1, MaxFiles)

\* Every flag that rewrites a job set, and a preset file that parses beside
\* one that does not.
FullOptions ==
    [DefaultOptions EXCEPT
        !.bucket = "bucket", !.cluster = "build", !.channel = "ci", !.sshKeySecret = "key",
        !.selector = [k \in {"zone"} |-> "us"],
        !.labels = [k \in {"team"} |-> "infra"],
        !.env = [k \in {"BAR", "FOO"} |-> "set"],
        !.presets = << [ok |-> FALSE, presets |-> << >>],
                       [ok |-> TRUE, presets |-> << [PresetFoo EXCEPT !.Labels = EmptyMap,
                                                                     !.Env = <<EnvBazQux>>] >>] >>,
        !.extraRefs = TRUE, !.resolve = TRUE, !.sshClone = TRUE, !.overrideSelector = TRUE]

RunOptions ==
    { [base EXCEPT !.clean = cl, !.dryRun = dr, !.output = out, !.orgMap = om, !.branches = br] :
        base \in {DefaultOptions, FullOptions}, cl \in BOOLEAN, dr \in BOOLEAN,
        out \in {OutDir, OutFile}, om \in OrgMaps, br \in {<< >>, <<BranchMain>>} }

OldBundle ==
    [valid |-> TRUE, header |-> autogenHeader, pre |-> [k \in {KeyBX} |-> <<PreOld>>],
     post |-> EmptyJobMap, per |-> <<PreOld>>]

Unreadable ==
    [valid |-> FALSE, header |-> "", pre |-> EmptyJobMap, post |-> EmptyJobMap, per |-> << >>]

DestBX == JoinPath(<<OutDir, OrgB, RepoX, <<"j", "o", "b">> \o Yaml>>)

DestFlat == JoinPath(<<OutDir, defaultModifier \o <<".", "j", "o", "b", "s">> \o Yaml>>)

\* The output tree before the run: empty, or left by an earlier run.
InitialOutputs ==
    { NoFS,
      [q \in {DestBX, DestFlat, OutFile} |-> IF q = DestFlat THEN Unreadable ELSE OldBundle] }

Init ==
    /\ o \in RunOptions
    /\ files \in InputTrees
    /\ fs0 \in InitialOutputs
    /\ fs = fs0
    /\ idx = 0
    /\ pc = "start"
    /\ arg = << >>
    /\ ret = << >>

\* Main up to the walk: with --clean, cleanOutDir over the mapped orgs in the
\* order the range over o.orgMap visits them.
Start ==
    /\ pc = "start"
    /\ \E ord \in Perms(DOMAIN o.orgMap) :
          fs' = IF o.clean THEN cleanOutDir(o, fs, o.output, ord) ELSE fs
    /\ idx' = 1
    /\ pc' = "walk"
    /\ UNCHANGED <<o, files, fs0, arg, ret>>

\* What the walk callback does for the file at absPath, routed to outPath,
\* whose bundle is b: the output file system after it, the lines printed so
\* far, and whether Main goes on.  A panic in the job updates ends the run
\* (handleRecover).
Callback(opts, fsys, out, file, absPath, outPath, b) ==
    IF ~HasExtension(absPath) \/ outPath = EmptyStr
    THEN [fs |-> fsys, out |-> out, pc |-> "walk"]
    ELSE IF ~file.ok
    THEN [fs |-> IF opts.clean THEN cleanOutFile(fsys, outPath) ELSE fsys, out |-> out, pc |-> "walk"]
    ELSE IF b.panic
    THEN [fs |-> IF opts.clean THEN cleanOutFile(fsys, outPath) ELSE fsys, out |-> out, pc |-> "panic"]
    ELSE IF opts.dryRun
    THEN [fs  |-> IF opts.clean THEN cleanOutFile(fsys, outPath) ELSE fsys,
          out |-> Append(out, <<Cardinality(DOMAIN b.pre), Cardinality(DOMAIN b.post),
                                Len(b.per), outPath>>),
          pc  |-> "walk"]
    ELSE [fs  |-> writeOutFile(IF opts.clean THEN cleanOutFile(fsys, outPath) ELSE fsys,
                               outPath, b.pre, b.post, b.per),
          out |-> out,
          pc  |-> "walk"]

\* The state of Main after a callback that returned r.
AfterCallback(r) ==
    /\ fs' = r.fs
    /\ ret' = r.out
    /\ pc' = r.pc
    /\ idx' = IF r.pc = "walk" THEN idx + 1 ELSE idx

\* The walk callback for the next input file.  ret collects the lines a dry
\* run prints.
WalkFile ==
    /\ pc = "walk"
    /\ idx <= Len(files)
    /\ \E ordPre \in Perms(DOMAIN files[idx].pre) : \E ordPost \in Perms(DOMAIN files[idx].post) :
          AfterCallback(Callback(o, fs, ret, files[idx],
                                 InputPath(o, files[idx].segs),
                                 getOutPath(o, InputPath(o, files[idx].segs), o.input),
                                 FileBundle(o, files[idx], ordPre, ordPost)))
    /\ UNCHANGED <<o, files, fs0, arg>>

\* filepath.Walk has visited every file: Main returns.
Exit ==
    /\ pc = "walk"
    /\ idx > Len(files)
    /\ pc' = "done"
    /\ UNCHANGED <<o, files, fs, fs0, idx, arg, ret>>

Next == Start \/ WalkFile \/ Exit

Spec == Init /\ [][Next]_vars

\* The files of the tree that the callback reads, routes and parses.
Visited(file) ==
    /\ HasExtension(InputPath(o, file.segs))
    /\ getOutPath(o, InputPath(o, file.segs), o.input) # EmptyStr

Routed(file) == getOutPath(o, InputPath(o, file.segs), o.input)

\* The jobs of a file that survive the filter, as the callback hands them to
\* writeOutFile.  No two keys of an input file remap to one key, so the
\* order of the walk over the keys does not show in the result.
Contribution(file) ==
    FileBundle(o, file, CHOOSE q \in Perms(DOMAIN file.pre) : TRUE,
                        CHOOSE q \in Perms(DOMAIN file.post) : TRUE)

JobsAt(m, k) == IF k \in DOMAIN m THEN m[k] ELSE << >>

\* s is embedded in t, in order.
RECURSIVE Embedded(_, _)
Embedded(s, t) ==
    IF Len(s) = 0 THEN TRUE
    ELSE IF Len(t) = 0 THEN FALSE
    ELSE IF Head(s) = Head(t) THEN Embedded(Tail(s), Tail(t))
    ELSE Embedded(s, Tail(t))

\* The jobs the parsed files fl routed to dest contribute for kind and key
\* k, earlier files first.
RECURSIVE Contributed(_, _, _, _)
Contributed(fl, dest, kind, k) ==
    IF Len(fl) = 0 THEN << >>
    ELSE (IF Visited(Head(fl)) /\ Head(fl).ok /\ Routed(Head(fl)) = dest
          THEN (CASE kind = "presubmit"  -> JobsAt(Contribution(Head(fl)).pre, k)
                  [] kind = "postsubmit" -> JobsAt(Contribution(Head(fl)).post, k)
                  [] kind = "periodic"   -> Contribution(Head(fl)).per)
          ELSE << >>)
         \o Contributed(Tail(fl), dest, kind, k)

\* The jobs of kind and key k that a reader finds at dest in the tree fsys.
PersistedIn(fsys, dest, kind, k) ==
    IF dest \notin DOMAIN fsys \/ ~fsys[dest].valid THEN << >>
    ELSE CASE kind = "presubmit"  -> JobsAt(fsys[dest].pre, k)
           [] kind = "postsubmit" -> JobsAt(fsys[dest].post, k)
           [] kind = "periodic"   -> fsys[dest].per

Persisted(dest, kind, k) == PersistedIn(fs, dest, kind, k)

OutKeys == {KeyAX, KeyBX, KeyCY, OrgRepoStr(OrgD, RepoY)}

\* C3: when a run that writes has visited every file, each destination holds,
\* per org/repo key of the presubmits and of the postsubmits and for the
\* periodics, the surviving jobs of all the files routed to it, those of an
\* earlier file before those of a later one and each file's in file order.
C3_DestinationKeepsAllJobs ==
    (pc = "done" /\ ~o.dryRun) =>
        \A i \in 1..Len(files) :
            (Visited(files[i]) /\ files[i].ok) =>
                \A kind \in JobTypes : \A k \in OutKeys :
                    Embedded(Contributed(files, Routed(files[i]), kind, k),
                             Persisted(Routed(files[i]), kind, k))

\* C4: a dry run leaves every output destination as it was before the run.
C4_DryRunWritesNothing == o.dryRun => fs = fs0

\* The output tree after the callback has run for the files fl, one after
\* the other, from the tree fsys.
RECURSIVE WalkAll(_, _)
WalkAll(fl, fsys) ==
    IF Len(fl) = 0 THEN fsys
    ELSE WalkAll(Tail(fl),
                 Callback(o, fsys, << >>, Head(fl), InputPath(o, Head(fl).segs),
                          Routed(Head(fl)), Contribution(Head(fl))).fs)

Parses(file) == file.ok

\* C10: at every point of the walk, and when Main returns, the output tree
\* is the one the same run leaves over the tree without the files that do
\* not parse: such a file changes no destination and does not stop the walk.
C10_ParseFailureLeavesOutputs ==
    (pc \in {"walk", "done"}) =>
        \E ord \in Perms(DOMAIN o.orgMap) :
            fs = WalkAll(SelectSeq(SubSeq(files, 1, idx - 1), Parses),
                         IF o.clean THEN cleanOutDir(o, fs0, o.output, ord) ELSE fs0)

-----------------------------------------------------------------------------
(* SpecE2E: a run of Main over one file that holds one presubmit under     *)
(* org-a/repo-x on branch main, gated to a preset that sets FOO=bar.       *)

E2ENames == {JobA, StringOfLen(MaxNameLen)}

E2EEnvs == {<< >>, <<EnvFooOld>>, <<EnvBarOld, EnvFooRef>>, <<EnvFooBar>>}

E2EJobs ==
    { [BaseJob EXCEPT !.Name = n, !.Branches = <<BranchMain>>, !.Labels = GateLabels,
                      !.Spec = << [BasePodSpec EXCEPT !.Containers = <<EnvContainer(env)>>] >>] :
        n \in E2ENames, env \in E2EEnvs }

E2EPresets ==
    { [PresetFoo EXCEPT !.Env = env] : env \in {<<EnvFooBar>>, <<EnvBazQux, EnvFooBar>>} }

\* The file is below the directory of org-a, or directly in the input
\* directory.
E2ELayouts == {WalkOrder[1], WalkOrder[2], WalkOrder[3]}

E2EOptions ==
    { [base EXCEPT !.clean = cl, !.dryRun = dr, !.output = out, !.orgMap = om,
                   !.modifier = md, !.branches = <<BranchMain>>, !.resolve = TRUE] :
        base \in {DefaultOptions, FullOptions}, cl \in BOOLEAN, dr \in BOOLEAN,
        out \in {OutDir, OutFile}, om \in OrgMaps,
        md \in {defaultModifier, StringOfLen(3)} }

\* The preset comes from a file of --presets or from the input file itself.
InitE2E ==
    /\ \E opts \in E2EOptions : \E job \in E2EJobs : \E preset \in E2EPresets :
       \E segs \in E2ELayouts : \E byFlag \in BOOLEAN :
          /\ o = [opts EXCEPT !.presets =
                     IF byFlag THEN @ \o << [ok |-> TRUE, presets |-> <<preset>>] >> ELSE @]
          /\ files = << FileAt(segs, [ok |-> TRUE, pre |-> [k \in {KeyAX} |-> <<job>>],
                                      post |-> EmptyJobMap, per |-> << >>,
                                      presets |-> IF byFlag THEN << >> ELSE <<preset>>]) >>
    /\ fs0 \in InitialOutputs
    /\ fs = fs0
    /\ idx = 0
    /\ pc = "start"
    /\ arg = << >>
    /\ ret = << >>

SpecE2E == InitE2E /\ [][Next]_vars

\* What the destination held for org-b/repo-x when the callback wrote to it.
E2EBefore(dest) ==
    IF o.clean THEN << >> ELSE PersistedIn(fs0, dest, "presubmit", KeyBX)

E2EStored == Persisted(Routed(files[1]), "presubmit", KeyBX)

\* C8: the run does not panic, and when Main returns the destination of the
\* file has one presubmit more than before, under org-b/repo-x and under no
\* other key; that presubmit's name ends with "_" + modifier and its one
\* container has FOO exactly once, with the value bar.  A dry run prints
\* that one presubmit key for the destination instead.
C8_EndToEnd ==
    /\ pc # "panic"
    /\ (pc = "done" /\ o.dryRun) => ret = << <<1, 0, 0, Routed(files[1])>> >>
    /\ (pc = "done" /\ ~o.dryRun) =>
          /\ Routed(files[1]) \in DOMAIN fs
          /\ DOMAIN fs[Routed(files[1])].pre = {KeyBX}
          /\ Persisted(Routed(files[1]), "presubmit", KeyAX) = << >>
          /\ Len(E2EStored) = Len(E2EBefore(Routed(files[1]))) + 1
          /\ SubSeq(E2EStored, 1, Len(E2EStored) - 1) = E2EBefore(Routed(files[1]))
          /\ HasSuffix(E2EStored[Len(E2EStored)].Name, <<"_">> \o o.modifier)
          /\ Len(E2EStored[Len(E2EStored)].Spec[1].Containers) = 1
          /\ CountByName(E2EStored[Len(E2EStored)].Spec[1].Containers[1].Env, "FOO") = 1
          /\ \E e \in 1..Len(E2EStored[Len(E2EStored)].Spec[1].Containers[1].Env) :
                /\ E2EStored[Len(E2EStored)].Spec[1].Containers[1].Env[e].Name = "FOO"
                /\ E2EStored[Len(E2EStored)].Spec[1].Containers[1].Env[e].Value = "bar"

C8_Witness ==
    /\ pc = "done"
    /\ ~o.dryRun
    /\ o.sshClone
    /\ files[1].pre[KeyAX][1].Name = StringOfLen(MaxNameLen)
    /\ files[1].pre[KeyAX][1].Spec[1].Containers[1].Env = <<EnvFooOld>>
    /\ files[1].presets # << >>
    /\ Routed(files[1]) = DestBX
    /\ Len(E2EStored) = 2
    /\ Len(E2EStored[2].Name) = maxLabelLen
    /\ HasSuffix(E2EStored[2].Name, <<"_">> \o defaultModifier)

=============================================================================
